---- MODULE Spec2Model ----
(***************************************************************************)
(* Model of app/api/src/functions/auth.ts: the dbAuth callbacks of the     *)
(* Shepherd API (forgot-password, login, reset-password, signup and        *)
(* password validation).                                                   *)
(*                                                                         *)
(* The signup handler is an async function: it runs synchronously up to   *)
(* an `await`, suspends there, and resumes when the awaited call settles,  *)
(* so several signup invocations (requests) interleave at the awaits and   *)
(* share the database.  Every collaborator call an invocation issues is    *)
(* recorded, in the order it is issued, in calls[i], the way a test double *)
(* records calls.                                                          *)
(***************************************************************************)
EXTENDS Integers, Sequences, FiniteSets, TLC

\* Number of signup invocations that may be in flight together.
MaxSignups == 2
\* Number of distinct email addresses that are submitted.
MaxEmails == 2
\* Longest reset token / password that is tried (characters).
MaxStrLen == 1

Invocations == 1..MaxSignups
AllEmails ==
    <<"ada@example.com", "bob@example.com", "cyd@example.com", "dee@example.com">>
Emails == {AllEmails[n] : n \in 1..MaxEmails}
Alphabet == {"a", "b"}

RECURSIVE StringsUpTo(_)
StringsUpTo(n) ==
    IF n = 0 THEN {<<>>}
    ELSE LET shorter == StringsUpTo(n - 1)
         IN  shorter \cup {Append(s, c) : s \in {t \in shorter : Len(t) = n - 1}, c \in Alphabet}
Strings == StringsUpTo(MaxStrLen)

VARIABLES
    NODE_ENV,    \* process.env.NODE_ENV
    failing,     \* the side-effect collaborators whose calls reject
    accounts,    \* rows of the account table
    users,       \* rows of the user table
    pc,          \* pc[i]: where signup invocation i stands
    args,        \* args[i]: { username, hashedPassword, salt, userAttributes } of invocation i
    newAccount,  \* newAccount[i]: the handler's local newAccount
    newUser,     \* newUser[i]: the handler's local newUser
    calls,       \* calls[i]: the collaborator calls invocation i has issued, in order
    result,      \* result[i]: what the handler of invocation i returned or threw
    lastCall     \* the last synchronous callback the framework invoked, with its outcome

vars == <<NODE_ENV, failing, accounts, users, pc, args, newAccount, newUser, calls,
          result, lastCall>>
signupVars == <<accounts, users, pc, args, newAccount, newUser, calls, result>>

Environments == {"development", "production", "test"}

NoAccount == [id |-> 0, apiKey |-> <<>>]
NoUser == [id |-> 0, email |-> "", accountId |-> 0]
NoArgs == [username |-> ""]
NoResult == [kind |-> "none"]
NoCall == [handler |-> "none"]

----------------------------------------------------------------------------
(* Strings that are inspected character by character are sequences of      *)
(* one-character strings; a template literal is their concatenation.       *)

LocalhostUrl ==
    <<"h","t","t","p",":","/","/","l","o","c","a","l","h","o","s","t",":","8","9","1","0">>
ProductionUrl ==
    <<"h","t","t","p","s",":","/","/","s","h","e","p","h","e","r","d","p","r","o",".","c","o","m">>
ResetPath ==
    <<"/","r","e","s","e","t","-","p","a","s","s","w","o","r","d","?",
      "r","e","s","e","t","T","o","k","e","n","=">>

----------------------------------------------------------------------------
(* The signup handler.                                                     *)

\* generateAPIKey(n) of lib/utils: a random key of n characters, kept opaque.
GenerateAPIKey(n) == <<"apiKey", n>>

AccountCreateData == [apiKey |-> GenerateAPIKey(32)]
\* Variant: the user is linked to a fixed account instead of the new one.
UserCreateDataFixedAccount(a, account) ==
    [email          |-> a.username,
     hashedPassword |-> a.hashedPassword,
     salt           |-> a.salt,
     name           |-> a.userAttributes.name,
     type           |-> "OWNER",
     accountId      |-> 1]

UserCreateData(a, account) ==
    [email          |-> a.username,
     hashedPassword |-> a.hashedPassword,
     salt           |-> a.salt,
     name           |-> a.userAttributes.name,
     type           |-> "OWNER",
     accountId      |-> account.id]

UserPlan(env) ==
    IF env = "development" THEN "Alpha-USD-Monthly" ELSE "alpha-usd-monthly"

WelcomeEmailInput(a) ==
    [to |-> a.username, subject |-> "Welcome to Shepherd Pro"]

SubscriptionInput(env, user) ==
    [status |-> "IN_TRIAL", type |-> UserPlan(env), userId |-> user.id]
\* Variant: the analytics event sets the display name as the email.
CaptureEventNameAsEmail(env, a, user, account) ==
    [distinctId |-> <<"shepherd-user-", user.id>>,
     event      |-> "Shepherd Signup",
     email      |-> a.userAttributes.name,
     name       |-> a.userAttributes.name,
     plan       |-> UserPlan(env),
     account    |-> account.id]

CaptureEvent(env, a, user, account) ==
    [distinctId |-> <<"shepherd-user-", user.id>>,
     event      |-> "Shepherd Signup",
     email      |-> a.username,
     name       |-> a.userAttributes.name,
     plan       |-> UserPlan(env),
     account    |-> account.id]

DbCalls == {"db.account.create", "db.user.create"}
SideEffects == {"sendWelcomeEmail", "createSubscription", "phDefaultClient.capture"}
\* Variant: the account creation is not awaited.
AwaitedUserOnly(fn) == fn = "db.user.create"

\* Variant: every call is awaited, the side effects included.
AwaitedAll(fn) == TRUE

\* The calls the handler awaits.
Awaited(fn) == fn \in DbCalls

\* The statement that follows the call to fn, once fn has been issued and,
\* when it is awaited, has resolved.
Successor(fn, user) ==
    CASE fn = "db.account.create"       -> <<"call", "db.user.create">>
      [] fn = "db.user.create"          -> IF user # NoUser
                                           THEN <<"call", "sendWelcomeEmail">>
                                           ELSE <<"end">>
      [] fn = "sendWelcomeEmail"        -> <<"call", "createSubscription">>
      [] fn = "createSubscription"      -> <<"call", "phDefaultClient.capture">>
      [] fn = "phDefaultClient.capture" -> <<"return">>
\* Variant: a rejected call is attempted again.
OnRejectedRetry(fn) == <<"call", fn>>

\* Variant: a rejection is caught and the handler carries on.
OnRejectedSwallow(fn) == Successor(fn, NoUser)

\* Where the handler goes when an awaited call rejects: nothing catches the
\* rejection, the handler ends with it.
OnRejected(fn) == <<"throw", fn>>

\* The argument of the call to fn, from the handler's locals l.
Input(fn, l) ==
    CASE fn = "db.account.create"       -> AccountCreateData
      [] fn = "db.user.create"          -> UserCreateData(l.args, l.newAccount)
      [] fn = "sendWelcomeEmail"        -> WelcomeEmailInput(l.args)
      [] fn = "createSubscription"      -> SubscriptionInput(l.env, l.newUser)
      [] fn = "phDefaultClient.capture" ->
             CaptureEvent(l.env, l.args, l.newUser, l.newAccount)

\* The handler's synchronous run from statement `at` with locals l, having
\* issued the calls of `trace`: it issues call after call until it suspends
\* on an awaited one, returns or ends with a rejection.  A call that is not
\* awaited leaves a promise behind ("pending") that the handler never reads.
RECURSIVE Run(_, _, _)
Run(at, l, trace) ==
    CASE at[1] = "call" ->
            LET fn     == at[2]
                issued == Append(trace, [fn |-> fn, input |-> Input(fn, l),
                                         outcome |-> "pending"])
            IN  IF Awaited(fn)
                THEN [pc |-> <<"await", fn>>, calls |-> issued, result |-> NoResult]
                ELSE Run(Successor(fn, l.newUser), l, issued)
      [] at[1] = "return" ->
            [pc |-> <<"done">>, calls |-> trace,
             result |-> [kind |-> "returned", value |-> l.newUser]]
      [] at[1] = "end" ->
            [pc |-> <<"done">>, calls |-> trace, result |-> [kind |-> "undefined"]]
      [] at[1] = "throw" ->
            [pc |-> <<"threw">>, calls |-> trace,
             result |-> [kind |-> "threw", from |-> at[2]]]

Locals(i) ==
    [args |-> args[i], newAccount |-> newAccount[i], newUser |-> newUser[i],
     env |-> NODE_ENV]

SignupInputs ==
    [username : Emails, hashedPassword : {"hashed"}, salt : {"salt"},
     userAttributes : [name : {"Ada"}]]

Outcomes == {"resolved", "rejected"}

\* How a call to fn may settle: a database create succeeds or fails; a
\* side-effect collaborator rejects exactly when it is among the failing.
PossibleOutcomes(fn) ==
    IF fn \in SideEffects
    THEN {IF fn \in failing THEN "rejected" ELSE "resolved"}
    ELSE Outcomes

Init ==
    /\ NODE_ENV \in Environments
    /\ failing \in SUBSET SideEffects
    /\ accounts = {}
    /\ users = {}
    /\ pc = [i \in Invocations |-> <<"idle">>]
    /\ args = [i \in Invocations |-> NoArgs]
    /\ newAccount = [i \in Invocations |-> NoAccount]
    /\ newUser = [i \in Invocations |-> NoUser]
    /\ calls = [i \in Invocations |-> <<>>]
    /\ result = [i \in Invocations |-> NoResult]
    /\ lastCall = NoCall

\* The framework invokes the signup handler, after it has found no user
\* with the submitted username; the handler runs up to its first await.
\* Invocations are numbered as they arrive.
SignupInvoke(i, a) ==
    /\ pc[i] = <<"idle">>
    /\ \A j \in Invocations : j < i => pc[j] # <<"idle">>
    /\ \A u \in users : u.email # a.username
    /\ LET r == Run(<<"call", "db.account.create">>, [Locals(i) EXCEPT !.args = a], <<>>)
       IN  /\ pc' = [pc EXCEPT ![i] = r.pc]
           /\ calls' = [calls EXCEPT ![i] = r.calls]
           /\ result' = [result EXCEPT ![i] = r.result]
    /\ args' = [args EXCEPT ![i] = a]
    /\ UNCHANGED <<NODE_ENV, failing, accounts, users, newAccount, newUser, lastCall>>

\* The call invocation i awaits settles, and the handler resumes.  A create
\* that resolves has inserted its row, with the next id of its table, and
\* yields that row; one that rejects has inserted nothing.
AwaitSettles(i, outcome) ==
    /\ pc[i][1] = "await"
    /\ outcome \in PossibleOutcomes(pc[i][2])
    /\ LET fn      == pc[i][2]
           k       == Len(calls[i])
           ok      == outcome = "resolved"
           account == IF ok /\ fn = "db.account.create"
                      THEN [id |-> Cardinality(accounts) + 1] @@ calls[i][k].input
                      ELSE newAccount[i]
           user    == IF ok /\ fn = "db.user.create"
                      THEN [id |-> Cardinality(users) + 1] @@ calls[i][k].input
                      ELSE newUser[i]
           l       == [Locals(i) EXCEPT !.newAccount = account, !.newUser = user]
           r       == Run(IF ok THEN Successor(fn, user) ELSE OnRejected(fn), l,
                          [calls[i] EXCEPT ![k].outcome = outcome])
       IN  /\ accounts' = IF ok /\ fn = "db.account.create"
                          THEN accounts \cup {account} ELSE accounts
           /\ users' = IF ok /\ fn = "db.user.create" THEN users \cup {user} ELSE users
           /\ newAccount' = [newAccount EXCEPT ![i] = account]
           /\ newUser' = [newUser EXCEPT ![i] = user]
           /\ pc' = [pc EXCEPT ![i] = r.pc]
           /\ calls' = [calls EXCEPT ![i] = r.calls]
           /\ result' = [result EXCEPT ![i] = r.result]
    /\ UNCHANGED <<NODE_ENV, failing, args, lastCall>>

Next ==
    \/ \E i \in Invocations, a \in SignupInputs : SignupInvoke(i, a)
    \/ \E i \in Invocations, outcome \in Outcomes : AwaitSettles(i, outcome)

Spec == Init /\ [][Next]_vars

----------------------------------------------------------------------------
(* The synchronous callbacks.  Each is given as what it returns together   *)
(* with the collaborator calls it issues.                                  *)
\* Variant: only production gets the production URL.
BaseUrlProductionOnly(env) == IF env = "production" THEN ProductionUrl ELSE LocalhostUrl

BaseUrl(env) == IF env = "development" THEN LocalhostUrl ELSE ProductionUrl

ForgotPasswordHandler(env, user, resetToken) ==
    [result |-> user,
     calls  |-> << [fn    |-> "sendResetEmail",
                    input |-> [to        |-> user.email,
                               subject   |-> "Reset your password",
                               resetLink |-> BaseUrl(env) \o ResetPath \o resetToken]] >>]
\* Variant: login returns only the fields sent to the client.
LoginHandlerAllowedFields(user) ==
    [result |-> [id |-> user.id, email |-> user.email], calls |-> <<>>]

LoginHandler(user) == [result |-> user, calls |-> <<>>]
\* Variant: reset-password sends the user to the login page.
ResetPasswordHandlerNoLogin(user) == [result |-> FALSE, calls |-> <<>>]

ResetPasswordHandler(user) == [result |-> TRUE, calls |-> <<>>]

\* Variant: an empty password is refused.
PasswordValidationNonEmpty(password) == [result |-> Len(password) > 0, calls |-> <<>>]

PasswordValidation(password) == [result |-> TRUE, calls |-> <<>>]

\* The user rows the framework can hand to a callback: rows as signup
\* creates them.
UserObjects ==
    {[id |-> n] @@ UserCreateData(a, [id |-> m]) :
        n \in 1..MaxSignups, m \in 1..MaxSignups, a \in SignupInputs}

Called(handler, arguments, r) ==
    [handler |-> handler, args |-> arguments, result |-> r.result, calls |-> r.calls]

ForgotPassword(user, resetToken) ==
    /\ lastCall' = Called("forgotPassword", <<user, resetToken>>,
                          ForgotPasswordHandler(NODE_ENV, user, resetToken))
    /\ UNCHANGED <<NODE_ENV, failing, signupVars>>

Login(user) ==
    /\ lastCall' = Called("login", <<user>>, LoginHandler(user))
    /\ UNCHANGED <<NODE_ENV, failing, signupVars>>

ResetPassword(user) ==
    /\ lastCall' = Called("resetPassword", <<user>>, ResetPasswordHandler(user))
    /\ UNCHANGED <<NODE_ENV, failing, signupVars>>

ValidatePassword(password) ==
    /\ lastCall' = Called("passwordValidation", <<password>>, PasswordValidation(password))
    /\ UNCHANGED <<NODE_ENV, failing, signupVars>>

NextCallbacks ==
    \/ \E user \in UserObjects, resetToken \in Strings : ForgotPassword(user, resetToken)
    \/ \E user \in UserObjects : Login(user)
    \/ \E user \in UserObjects : ResetPassword(user)
    \/ \E password \in Strings : ValidatePassword(password)

SpecCallbacks == Init /\ [][NextCallbacks]_vars

----------------------------------------------------------------------------
(* Properties.                                                             *)

\* The positions of the calls to fn among the calls of invocation i.
Idx(i, fn) == {k \in 1..Len(calls[i]) : calls[i][k].fn = fn}

\* The calls to fn, over all invocations, that resolved.
Resolved(fn) ==
    UNION {{<<i, k>> : k \in {n \in Idx(i, fn) : calls[i][n].outcome = "resolved"}} :
              i \in Invocations}

Finished(i) == pc[i] \in {<<"done">>, <<"threw">>}
Returned(i) == result[i].kind = "returned"
UserCreated(i) == \E k \in Idx(i, "db.user.create") : calls[i][k].outcome = "resolved"

\* The email address an argument carries, "" when it carries none.
CallEmail(input) ==
    IF "to" \in DOMAIN input THEN input.to
    ELSE IF "email" \in DOMAIN input THEN input.email
    ELSE ""

\* s occurs in t / t begins with s / t ends with s.
Contains(t, s) == \E k \in 0..(Len(t) - Len(s)) : SubSeq(t, k + 1, k + Len(s)) = s
StartsWith(t, s) == Len(s) <= Len(t) /\ SubSeq(t, 1, Len(s)) = s
EndsWith(t, s) == Len(s) <= Len(t) /\ SubSeq(t, Len(t) - Len(s) + 1, Len(t)) = s

\* C1: a signup that returns has created exactly one account and one user,
\* the user's accountId is the id of the account that same invocation
\* created, every row in either table stems from one resolved create, and
\* no two users share an account; when every invocation has returned the
\* tables have the same size.
C1_OneAccountOneUser ==
    /\ \A i \in Invocations : Returned(i) =>
          /\ Cardinality(Idx(i, "db.account.create")) = 1
          /\ Cardinality(Idx(i, "db.user.create")) = 1
          /\ newAccount[i] \in accounts
          /\ newUser[i] \in users
          /\ newUser[i].accountId = newAccount[i].id
          /\ \A j \in Invocations \ {i} : Returned(j) =>
                /\ newAccount[j].id # newAccount[i].id
                /\ newUser[j].id # newUser[i].id
    /\ Cardinality(accounts) = Cardinality(Resolved("db.account.create"))
    /\ Cardinality(users) = Cardinality(Resolved("db.user.create"))
    /\ \A u, v \in users : u.accountId = v.accountId => u = v
    /\ \A u \in users : \E a \in accounts : a.id = u.accountId
    /\ (\A i \in Invocations : Returned(i)) =>
          Cardinality(accounts) = Cardinality(users)

\* Every invocation has returned, after interleaving with another one.
C1_Witness ==
    /\ \A i \in Invocations : Returned(i)
    /\ \E i, j \in Invocations : i # j /\ newAccount[i].id < newAccount[j].id
                                 /\ newUser[i].id > newUser[j].id

\* C2 as stated: once the user is created, each side effect is called
\* exactly once and the argument of each carries the submitted email.
C2_EachSideEffectCarriesEmail ==
    \A i \in Invocations : UserCreated(i) =>
        \A fn \in SideEffects :
            /\ Cardinality(Idx(i, fn)) = 1
            /\ \A k \in Idx(i, fn) : CallEmail(calls[i][k].input) = args[i].username

\* C2, amended: once the user is created, each side effect is called exactly
\* once; the welcome email is addressed to the submitted email and the
\* analytics event carries it, while the subscription call carries the id
\* of the new user and no email.
C2_SideEffectsOnce ==
    \A i \in Invocations : UserCreated(i) =>
        /\ \A fn \in SideEffects : Cardinality(Idx(i, fn)) = 1
        /\ \A k \in Idx(i, "sendWelcomeEmail") : calls[i][k].input.to = args[i].username
        /\ \A k \in Idx(i, "phDefaultClient.capture") :
              calls[i][k].input.email = args[i].username
        /\ \A k \in Idx(i, "createSubscription") :
              /\ calls[i][k].input.userId = newUser[i].id
              /\ CallEmail(calls[i][k].input) = ""

\* Two signups with different emails have both issued their side effects.
C2_Witness ==
    \E i, j \in Invocations :
        /\ UserCreated(i) /\ UserCreated(j)
        /\ args[i].username # args[j].username
        /\ Len(calls[i]) = 5 /\ Len(calls[j]) = 5

CallOrder ==
    <<"db.account.create", "db.user.create", "sendWelcomeEmail", "createSubscription",
      "phDefaultClient.capture">>

\* C3: the calls of an invocation are issued in the order account, user,
\* email, subscription, analytics; the user creation is issued only once the
\* account creation has resolved and its row exists; a side effect is issued
\* only once the user creation has resolved and the user row exists; and the
\* handler returns the created user only after all five calls.
C3_FixedOrder ==
    \A i \in Invocations :
        /\ Len(calls[i]) <= Len(CallOrder)
        /\ \A k \in 1..Len(calls[i]) : calls[i][k].fn = CallOrder[k]
        /\ Len(calls[i]) >= 2 =>
              calls[i][1].outcome = "resolved" /\ newAccount[i] \in accounts
        /\ Len(calls[i]) >= 3 =>
              calls[i][2].outcome = "resolved" /\ newUser[i] \in users
        /\ Returned(i) => Len(calls[i]) = 5 /\ result[i].value = newUser[i]

\* One invocation has returned while another still awaits its account.
C3_Witness ==
    \E i, j \in Invocations :
        /\ Returned(i) /\ Len(calls[i]) = 5
        /\ pc[j] = <<"await", "db.account.create">>

\* C4: whichever side-effect collaborators reject, a signup whose user was
\* created finishes by returning that user, the user and account rows are
\* still there, and all three side effects were issued.
C4_SideEffectFailureInvisible ==
    \A i \in Invocations : UserCreated(i) /\ Finished(i) =>
        /\ result[i] = [kind |-> "returned", value |-> newUser[i]]
        /\ newUser[i] \in users
        /\ newAccount[i] \in accounts
        /\ \A fn \in SideEffects : Idx(i, fn) # {}

\* All three side effects reject and the signup has returned its user.
C4_Witness ==
    /\ failing = SideEffects
    /\ \E i \in Invocations : UserCreated(i) /\ Returned(i)

\* C6: when a database create rejects, that call is the last one the
\* invocation issues, it was issued once, the handler has ended with that
\* rejection and returned no user, and no side effect was issued; and a
\* handler ends with a rejection only in this way.
C6_RejectionPropagates ==
    \A i \in Invocations :
        /\ \A k \in 1..Len(calls[i]) :
              calls[i][k].outcome = "rejected" =>
                 /\ k = Len(calls[i])
                 /\ pc[i] = <<"threw">>
                 /\ result[i] = [kind |-> "threw", from |-> calls[i][k].fn]
                 /\ Cardinality(Idx(i, calls[i][k].fn)) = 1
                 /\ \A fn \in SideEffects : Idx(i, fn) = {}
        /\ pc[i] = <<"threw">> =>
              /\ result[i].kind = "threw"
              /\ calls[i][Len(calls[i])].outcome = "rejected"

\* Both an account creation and a user creation have failed.
C6_Witness ==
    \E i, j \in Invocations :
        /\ result[i] = [kind |-> "threw", from |-> "db.account.create"]
        /\ result[j] = [kind |-> "threw", from |-> "db.user.create"]

\* C10: there are never fewer accounts than users, and after a failed user
\* creation the account the invocation created is still there with no user
\* referring to it.
C10_NoRollback ==
    /\ Cardinality(accounts) >= Cardinality(users)
    /\ \A i \in Invocations :
          result[i] = [kind |-> "threw", from |-> "db.user.create"] =>
             /\ newAccount[i] \in accounts
             /\ \A u \in users : u.accountId # newAccount[i].id

\* Every invocation is over and an orphan account is left behind.
C10_Witness ==
    /\ \A i \in Invocations : Finished(i)
    /\ \E i \in Invocations : result[i] = [kind |-> "threw", from |-> "db.user.create"]
    /\ Cardinality(accounts) > Cardinality(users)
    /\ users # {}

\* C5: the forgot-password callback returns the user it was given and
\* issues exactly one reset email, to that user's email, whose link contains
\* the reset token (as the value of its resetToken parameter) and begins
\* with the localhost URL in development and the production URL otherwise.
C5_ForgotPassword ==
    lastCall.handler = "forgotPassword" =>
        LET user  == lastCall.args[1]
            token == lastCall.args[2]
        IN  /\ lastCall.result = user
            /\ Len(lastCall.calls) = 1
            /\ lastCall.calls[1].fn = "sendResetEmail"
            /\ lastCall.calls[1].input.to = user.email
            /\ LET link == lastCall.calls[1].input.resetLink
               IN  /\ Contains(link, token)
                   /\ EndsWith(link, ResetPath \o token)
                   /\ NODE_ENV = "development" => StartsWith(link, LocalhostUrl)
                   /\ NODE_ENV # "development" => StartsWith(link, ProductionUrl)

\* Forgot-password has run outside development and production, with a token
\* that occurs nowhere else in the link.
C5_Witness ==
    /\ lastCall.handler = "forgotPassword"
    /\ NODE_ENV = "test"
    /\ lastCall.args[2] = <<"b">>

\* C7: the reset-password callback returns true for any user and issues no
\* collaborator call (no database write, no side effect).
C7_ResetPasswordTrue ==
    lastCall.handler = "resetPassword" =>
        lastCall.result = TRUE /\ lastCall.calls = <<>>

C7_Witness ==
    lastCall.handler = "resetPassword" /\ lastCall.args[1].id = MaxSignups

\* C8: the login callback returns the user it was given, unchanged, and
\* issues no collaborator call (database, email, subscription, analytics).
C8_LoginIdentity ==
    lastCall.handler = "login" =>
        lastCall.result = lastCall.args[1] /\ lastCall.calls = <<>>

C8_Witness ==
    lastCall.handler = "login" /\ lastCall.args[1].accountId = MaxSignups

\* C9: password validation returns true for any password, the empty string
\* included.
C9_PasswordAlwaysValid ==
    lastCall.handler = "passwordValidation" => lastCall.result = TRUE

C9_Witness ==
    lastCall.handler = "passwordValidation" /\ lastCall.args[1] = <<>>

====
